---- MODULE Spec2Model ----
(***************************************************************************)
(* A model of the management command update_steam_sales                    *)
(* (src/users/management/commands/update_steam_sales.py, Command.handle):  *)
(* the page-by-page fetch loop, the scam filter, the classification into   *)
(* current sales / top sales / best prices, and the two file writes.       *)
(*                                                                         *)
(* Representation.                                                         *)
(*   - A raw API item is a function from the JSON keys it carries to       *)
(*     optional values: a key that is absent is not in its DOMAIN, a JSON  *)
(*     null is None (the empty tuple) and a value v is <<v>>.              *)
(*   - Strings are tuples of one-character strings, dates (YYYYMMDD) are   *)
(*     tuples of digits; both are compared as Python compares strings.     *)
(*   - discount_rt is a float in the source; here it is counted in         *)
(*     hundredths, so 0.5 is 50, 0.95 is 95 and 1.0 is 100.                *)
(*   - The list caps 500, 50 and 200 of the source are scaled down to      *)
(*     CurrentCap, TopCap and BestCap so that lists longer than a cap are  *)
(*     within reach of the model checker.                                  *)
(***************************************************************************)
EXTENDS Integers, Sequences, FiniteSets, TLC

VARIABLES
    feed,           \* the items the remote source may serve in this run
    target_count,   \* options['count']
    batch_size,     \* min(options['batch_size'], 100)
    pc,             \* position of the run inside handle()
    page,           \* next page number to request
    requests,       \* log of the HTTP exchanges made so far
    all_sales,      \* accumulated raw items
    idx,            \* position of the classification loop in all_sales
    current_sales,  \* list of game_info
    best_prices,    \* dict game_id -> game_info, in insertion order
    skipped_scam,   \* tally of filtered items
    result,         \* the snapshot document built at lines 182-193
    primary_file,   \* content of users/steam_sale_data.json
    legacy_file,    \* content of users/steam_sale_dataset_fast.json
    stdout          \* the messages written to self.stdout, in order

vars == <<feed, target_count, batch_size, pc, page, requests, all_sales, idx,
          current_sales, best_prices, skipped_scam, result, primary_file,
          legacy_file, stdout>>

----------------------------------------------------------------------------
(* Bounds of the model *)

MaxCount == 3
MaxFetchCount == 7
MaxBatch == 2
\* Scaled list caps: stand for 500, 50 and 200 (lines 184, 175/185, 186).
CurrentCap == 2
TopCap == 2
BestCap == 2

(* Program constants *)

BatchLimit == 100
MaxDiscount == 100
MaxFullPrice == 500000
HighDiscount == 90
MaxHighDiscountPrice == 30000
MinSaleCount == 3
ExtremeDiscount == 95
PopularDiscount == 50

----------------------------------------------------------------------------
(* Python values *)

None == <<>>
Some(v) == <<v>>

\* dict.get(key): None when the key is absent.
Get(item, key) == IF key \in DOMAIN item THEN item[key] ELSE None

\* dict.get(key, default): the default only when the key is absent.
GetDefault(item, key, default) ==
    IF key \in DOMAIN item THEN item[key] ELSE Some(default)

\* `x or 0` for an optional number: None and 0 are falsy.
OrZero(opt) == IF opt = None THEN 0 ELSE IF opt[1] = 0 THEN 0 ELSE opt[1]

\* `x or ''` for an optional string: None and '' are falsy.
OrEmpty(opt) == IF opt = None THEN <<>> ELSE opt[1]

Min(a, b) == IF a <= b THEN a ELSE b

\* str >= str on digit strings: lexicographic, a proper prefix being smaller.
RECURSIVE StrGE(_, _)
StrGE(a, b) ==
    IF b = <<>> THEN TRUE
    ELSE IF a = <<>> THEN FALSE
    ELSE IF Head(a) # Head(b) THEN Head(a) > Head(b)
    ELSE StrGE(Tail(a), Tail(b))

UpperLetters ==
    <<"A","B","C","D","E","F","G","H","I","J","K","L","M",
      "N","O","P","Q","R","S","T","U","V","W","X","Y","Z">>
LowerLetters ==
    <<"a","b","c","d","e","f","g","h","i","j","k","l","m",
      "n","o","p","q","r","s","t","u","v","w","x","y","z">>

LowerChar(c) ==
    IF \E i \in 1..Len(UpperLetters) : UpperLetters[i] = c
    THEN LowerLetters[CHOOSE i \in 1..Len(UpperLetters) : UpperLetters[i] = c]
    ELSE c

\* str.lower()
Lower(s) == [i \in 1..Len(s) |-> LowerChar(s[i])]

\* `sub in s` for strings
Contains(sub, s) ==
    \E i \in 0..(Len(s) - Len(sub)) : SubSeq(s, i + 1, i + Len(sub)) = sub

scam_keywords ==
    << <<"p","u","z","z","l","e"," ","p","a","c","k">>,
       <<"d","l","c"," ","b","u","n","d","l","e">>,
       <<"s","o","u","n","d","t","r","a","c","k">>,
       <<"o","s","t">>,
       <<"a","r","t","b","o","o","k">> >>

\* datetime.now().strftime('%Y%m%d'), the day of the run
today == <<2,0,2,6,1,1,0,3>>

\* Mutant of StableSortDesc: a descending sort that reverses equal keys
SortDescTiesReversed(s, keys) ==
    LET rank(i) == Cardinality({j \in 1..Len(keys) : keys[j] > keys[i]})
                   + Cardinality({j \in i..Len(keys) : keys[j] = keys[i]})
    IN  [p \in 1..Len(s) |-> s[CHOOSE i \in 1..Len(s) : rank(i) = p]]

\* list.sort(key=..., reverse=True): a stable sort, so elements with equal
\* keys keep their relative order. keys[i] is the key of s[i].
SortRank(keys, i) ==
    Cardinality({j \in 1..Len(keys) : keys[j] > keys[i]})
    + Cardinality({j \in 1..i : keys[j] = keys[i]})

StableSortDesc(s, keys) ==
    [p \in 1..Len(s) |-> s[CHOOSE i \in 1..Len(s) : SortRank(keys, i) = p]]

\* s[:n]
Take(s, n) == SubSeq(s, 1, Min(Len(s), n))

----------------------------------------------------------------------------
(* The scam filter and the normalised record, lines 103-151 *)

discount_rt(item) == OrZero(Get(item, "discount_rt"))
sale_price(item) == OrZero(Get(item, "sale_price_va"))
full_price(item) == OrZero(Get(item, "full_price_va"))
end_dt(item) == OrEmpty(Get(item, "end_dt"))
sale_count(item) == GetDefault(item, "sale_cn", 0)
title_nm(item) == GetDefault(item, "title_nm", <<>>)

\* Mutant of FilterOutcome: the keywords are matched against the title as
\* it is, without lower()
FilterOutcomeCaseSensitive(item) ==
    IF discount_rt(item) > MaxDiscount THEN "scam"
    ELSE IF full_price(item) > MaxFullPrice THEN "scam"
    ELSE IF discount_rt(item) >= HighDiscount
            /\ sale_price(item) > MaxHighDiscountPrice THEN "scam"
    ELSE IF sale_count(item) = None THEN "TypeError"
    ELSE IF sale_count(item)[1] < MinSaleCount
            /\ discount_rt(item) >= ExtremeDiscount THEN "scam"
    ELSE IF title_nm(item) = None THEN "AttributeError"
    ELSE IF discount_rt(item) >= ExtremeDiscount
            /\ \E k \in 1..Len(scam_keywords) :
                  Contains(scam_keywords[k], title_nm(item)[1])
         THEN "scam"
    ELSE "pass"

\* The outcome of lines 111-139 for one item: "scam" (counted and skipped),
\* "pass", or the exception that an operand of the wrong type raises:
\* None < 3 is a TypeError (line 129), None.lower() an AttributeError
\* (line 134). Neither is caught inside handle().
FilterOutcome(item) ==
    IF discount_rt(item) > MaxDiscount THEN "scam"
    ELSE IF full_price(item) > MaxFullPrice THEN "scam"
    ELSE IF discount_rt(item) >= HighDiscount
            /\ sale_price(item) > MaxHighDiscountPrice THEN "scam"
    ELSE IF sale_count(item) = None THEN "TypeError"
    ELSE IF sale_count(item)[1] < MinSaleCount
            /\ discount_rt(item) >= ExtremeDiscount THEN "scam"
    ELSE IF title_nm(item) = None THEN "AttributeError"
    ELSE IF discount_rt(item) >= ExtremeDiscount
            /\ \E k \in 1..Len(scam_keywords) :
                  Contains(scam_keywords[k], Lower(title_nm(item)[1]))
         THEN "scam"
    ELSE "pass"

\* game_info, lines 141-151
GameInfo(item) ==
    [game_id |-> Get(item, "game_id"),
     title |-> Get(item, "title_nm"),
     current_price |-> sale_price(item),
     original_price |-> full_price(item),
     discount_rate |-> discount_rt(item),
     thumbnail |-> Get(item, "img_lk"),
     store_link |-> Get(item, "store_lk"),
     end_date |-> end_dt(item),
     sale_count |-> sale_count(item)]

\* Line 154-155: is the item a current sale
IsCurrent(item) ==
    /\ (StrGE(end_dt(item), today) \/ end_dt(item) = <<>>)
    /\ discount_rt(item) # 0 /\ discount_rt(item) > 0

\* Truthiness of game_id at line 159: None, 0 and '' are falsy.
Truthy(opt) == opt # None /\ opt[1] # 0

\* Line 159: does the item take part in best-price tracking
TracksPrice(item) ==
    Truthy(Get(item, "game_id")) /\ sale_price(item) # 0 /\ sale_price(item) > 0

\* Position of game_id in the dict, 0 when it is not a key
KeyIndex(dict, gid) ==
    IF \E k \in 1..Len(dict) : dict[k].game_id = gid
    THEN CHOOSE k \in 1..Len(dict) : dict[k].game_id = gid
    ELSE 0

\* Mutant of IsBetterPrice: the comparison turned round
IsHigherPrice(new_price, stored_price) == new_price > stored_price

\* Line 160: the comparison that decides a replacement
IsBetterPrice(new_price, stored_price) == new_price < stored_price

\* Lines 159-164: best_prices after the item. Assigning to an existing key
\* keeps the key's place in the dict's order.
UpdateBestPrices(dict, item) ==
    LET gid == Get(item, "game_id")
        k == KeyIndex(dict, gid)
        entry == GameInfo(item) @@ [is_best_price |-> TRUE]
    IN  IF ~TracksPrice(item) THEN dict
        ELSE IF k = 0 THEN Append(dict, entry)
        ELSE IF IsBetterPrice(sale_price(item), dict[k].current_price)
             THEN [dict EXCEPT ![k] = entry]
        ELSE dict

\* Sort keys: lines 169/179 and 174 (`or 0` turns None into 0)
DiscountKey(info) == IF info.discount_rate = 0 THEN 0 ELSE info.discount_rate
SaleCountKey(info) == OrZero(info.sale_count)

\* Line 169 / 179: sort by discount rate, highest first
SortByDiscount(s) == StableSortDesc(s, [i \in 1..Len(s) |-> DiscountKey(s[i])])

\* Line 174: sort by sale count, highest first
SortBySaleCount(s) == StableSortDesc(s, [i \in 1..Len(s) |-> SaleCountKey(s[i])])

\* Mutant of IsPopular: the threshold a tenth of what it is
IsPopularAtFivePercent(info) == DiscountKey(info) >= 5

\* Line 173: the filter of popular_sales
IsPopular(info) == DiscountKey(info) >= PopularDiscount

\* Lines 173-175: top_sales from the sorted current_sales
TopSales(sorted_current) ==
    Take(SortBySaleCount(SelectSeq(sorted_current, IsPopular)), TopCap)

\* Lines 178-179: best_prices_list from the dict
BestPricesList(dict) == SortByDiscount(dict)

\* Mutant of Stats: the counts taken from the lists as written
StatsOfWrittenLists(fetched, sorted_current, top, best_list) ==
    [total_fetched |-> Len(fetched),
     current_count |-> Len(Take(sorted_current, CurrentCap)),
     top_count |-> Len(top),
     best_prices_count |-> Len(Take(best_list, BestCap))]

\* Lines 187-192: stats
Stats(fetched, sorted_current, top, best_list) ==
    [total_fetched |-> Len(fetched),
     current_count |-> Len(sorted_current),
     top_count |-> Len(top),
     best_prices_count |-> Len(best_list)]

\* Mutant of Snapshot: the slices of lines 184-186 left out
SnapshotUncapped(fetched, sorted_current, dict) ==
    LET top == TopSales(sorted_current)
        best_list == BestPricesList(dict)
    IN  [current_sales |-> sorted_current,
         top_sales |-> top,
         best_prices |-> best_list,
         stats |-> Stats(fetched, sorted_current, top, best_list)]

\* Lines 182-193: the snapshot document (updated_at left out)
Snapshot(fetched, sorted_current, dict) ==
    LET top == TopSales(sorted_current)
        best_list == BestPricesList(dict)
    IN  [current_sales |-> Take(sorted_current, CurrentCap),
         top_sales |-> Take(top, TopCap),
         best_prices |-> Take(best_list, BestCap),
         stats |-> Stats(fetched, sorted_current, top, best_list)]

\* The value of result before line 182 is reached
NoSnapshot ==
    [current_sales |-> <<>>, top_sales |-> <<>>, best_prices |-> <<>>,
     stats |-> [total_fetched |-> 0, current_count |-> 0, top_count |-> 0,
                best_prices_count |-> 0]]

----------------------------------------------------------------------------
(* The items the source serves *)

Absent == <<0, 0>>

\* An API item from its fields, a field equal to Absent being left out
Item(fields) ==
    [k \in {f \in DOMAIN fields : fields[f] # Absent} |-> fields[k]]

Mk(g, t, d, sp, fp, sc, e) ==
    Item([game_id |-> g, title_nm |-> t, discount_rt |-> d,
          sale_price_va |-> sp, full_price_va |-> fp, sale_cn |-> sc,
          end_dt |-> e, img_lk |-> Some("img"), store_lk |-> Some("url")])

TitleA == <<"A","b">>
TitleB == <<"C","d">>
TitleC == <<"E","f">>
TitleBoost == <<"B","o","o","s","t">>
TitleOST == <<"M","y"," ","O","S","T">>
Tomorrow == <<2,0,2,6,1,1,0,4>>
Yesterday == <<2,0,2,6,1,1,0,2>>

\* A plain, acceptable sale
PlainItem == Mk(Some(1), Some(TitleA), Some(50), Some(1000), Some(2000), Some(5), Absent)

\* A catalogue of sales: the same game at two prices, equal discounts and
\* equal sale counts across games, a small discount, a 320% discount and an
\* expired offer without discount.
CatalogueItems ==
    { PlainItem,
      Mk(Some(1), Some(TitleA), Some(50), Some(800), Some(1600), Some(9), Absent),
      Mk(Some(2), Some(TitleB), Some(50), Some(900), Some(1800), Some(9), Some(Tomorrow)),
      Mk(Some(3), Some(TitleC), Some(90), Some(300), Some(3000), Some(5), Absent),
      Mk(Some(4), Some(TitleC), Some(30), Some(1400), Some(2000), Some(12), Absent),
      Mk(Some(2), Some(TitleB), Some(320), Some(100), Some(1000), Some(7), Absent),
      Mk(Some(2), Some(TitleB), None, Some(700), Some(700), Some(4), Some(Yesterday)) }

\* Items at the boundaries of the filter rules, with every field that the
\* filter reads present, null or absent
BoundaryItems ==
    { Mk(g, t, d, sp, fp, sc, Absent) :
        g \in {Absent, None, Some(1)},
        t \in {Absent, None, Some(TitleA), Some(TitleBoost), Some(TitleOST)},
        d \in {None, Some(50), Some(90), Some(94), Some(95), Some(100), Some(101)},
        sp \in {Some(30000), Some(30001)},
        fp \in {Some(500000), Some(500001)},
        sc \in {Absent, None, Some(2), Some(3)} }

FeedItems(f) ==
    CASE f = "catalogue" -> CatalogueItems
      [] f = "boundary" -> BoundaryItems
      [] f = "plain" -> {PlainItem}

\* The runs explored: what the source serves, --count and --batch-size
Scenarios ==
    {[feed |-> "catalogue", count |-> n, batch |-> 1] : n \in 0..MaxCount}
    \cup {[feed |-> "boundary", count |-> 1, batch |-> 1]}
    \cup {[feed |-> "plain", count |-> n, batch |-> b] :
             n \in 0..MaxFetchCount, b \in 1..MaxBatch}

\* The non-empty pages a request for `size` items can return
Pages(f, size) == UNION {[1..n -> FeedItems(f)] : n \in 1..size}

----------------------------------------------------------------------------
(* The run *)

Init ==
    /\ \E sc \in Scenarios :
          /\ feed = sc.feed
          /\ target_count = sc.count
          /\ batch_size = Min(sc.batch, BatchLimit)
    /\ pc = "fetch"
    /\ page = 1
    /\ requests = <<>>
    /\ all_sales = <<>>
    /\ idx = 1
    /\ current_sales = <<>>
    /\ best_prices = <<>>
    /\ skipped_scam = 0
    /\ result = NoSnapshot
    /\ primary_file = "previous"
    /\ legacy_file = "previous"
    /\ stdout = <<"starting">>

Request(outcome, items) == [page |-> page, outcome |-> outcome, items |-> items]

\* Mutant of FetchPage: the accumulated items cut to the target count
FetchPageTruncating ==
    /\ pc = "fetch"
    /\ Len(all_sales) < target_count
    /\ \E items \in Pages(feed, batch_size) :
          /\ requests' = Append(requests, Request("ok", items))
          /\ all_sales' = Take(all_sales \o items, target_count)
    /\ page' = page + 1
    /\ stdout' = IF page % 5 = 0 THEN Append(stdout, "page_done") ELSE stdout
    /\ UNCHANGED <<feed, target_count, batch_size, pc, idx, current_sales,
                   best_prices, skipped_scam, result, primary_file, legacy_file>>

\* Lines 59-88: one passage through the loop that receives a non-empty page
FetchPage ==
    /\ pc = "fetch"
    /\ Len(all_sales) < target_count
    /\ \E items \in Pages(feed, batch_size) :
          /\ requests' = Append(requests, Request("ok", items))
          /\ all_sales' = all_sales \o items
    /\ page' = page + 1
    /\ stdout' = IF page % 5 = 0 THEN Append(stdout, "page_done") ELSE stdout
    /\ UNCHANGED <<feed, target_count, batch_size, pc, idx, current_sales,
                   best_prices, skipped_scam, result, primary_file, legacy_file>>

\* Lines 78-80: the page has no items
FetchEmpty ==
    /\ pc = "fetch"
    /\ Len(all_sales) < target_count
    /\ requests' = Append(requests, Request("empty", <<>>))
    /\ pc' = "classify"
    /\ stdout' = Append(stdout, "no_more_data")
    /\ UNCHANGED <<feed, target_count, batch_size, page, all_sales, idx,
                   current_sales, best_prices, skipped_scam, result,
                   primary_file, legacy_file>>

\* Lines 69-73 and 90-95: a status other than 200, or an exception raised by
\* the request or by the decoding of its body
FetchFails ==
    /\ pc = "fetch"
    /\ Len(all_sales) < target_count
    /\ \E outcome \in {"status", "exception"} :
          /\ requests' = Append(requests, Request(outcome, <<>>))
          /\ stdout' = Append(stdout, IF outcome = "status" THEN "request_failed"
                                                           ELSE "error")
    /\ pc' = "classify"
    /\ UNCHANGED <<feed, target_count, batch_size, page, all_sales, idx,
                   current_sales, best_prices, skipped_scam, result,
                   primary_file, legacy_file>>

\* Line 59: the loop condition is false
FetchEnough ==
    /\ pc = "fetch"
    /\ ~(Len(all_sales) < target_count)
    /\ pc' = "classify"
    /\ UNCHANGED <<feed, target_count, batch_size, page, requests, all_sales,
                   idx, current_sales, best_prices, skipped_scam, result,
                   primary_file, legacy_file, stdout>>

\* Lines 103-164: the loop body for all_sales[idx]
ProcessItem ==
    /\ pc = "classify"
    /\ idx <= Len(all_sales)
    /\ LET item == all_sales[idx]
           outcome == FilterOutcome(item)
       IN  /\ pc' = IF outcome \in {"scam", "pass"} THEN "classify" ELSE "crashed"
           /\ idx' = IF outcome \in {"scam", "pass"} THEN idx + 1 ELSE idx
           /\ skipped_scam' = IF outcome = "scam" THEN skipped_scam + 1
                              ELSE skipped_scam
           /\ current_sales' = IF outcome = "pass" /\ IsCurrent(item)
                               THEN Append(current_sales, GameInfo(item))
                               ELSE current_sales
           /\ best_prices' = IF outcome = "pass"
                             THEN UpdateBestPrices(best_prices, item)
                             ELSE best_prices
    /\ UNCHANGED <<feed, target_count, batch_size, page, requests, all_sales,
                   result, primary_file, legacy_file, stdout>>

\* Lines 168-193: sort, derive the lists and build the document
BuildResult ==
    /\ pc = "classify"
    /\ idx > Len(all_sales)
    /\ current_sales' = SortByDiscount(current_sales)
    /\ result' = Snapshot(all_sales, current_sales', best_prices)
    /\ pc' = "open_primary"
    /\ stdout' = Append(stdout, "filtered")
    /\ UNCHANGED <<feed, target_count, batch_size, page, requests, all_sales,
                   idx, best_prices, skipped_scam, primary_file, legacy_file>>

\* Line 199: open(file_path, 'w') truncates the file
OpenPrimary ==
    /\ pc = "open_primary"
    /\ primary_file' = "empty"
    /\ pc' = "dump_primary"
    /\ UNCHANGED <<feed, target_count, batch_size, page, requests, all_sales,
                   idx, current_sales, best_prices, skipped_scam, result,
                   legacy_file, stdout>>

\* Lines 199, 211-212: open() raises IOError; CommandError leaves handle()
OpenPrimaryFails ==
    /\ pc = "open_primary"
    /\ pc' = "command_error"
    /\ UNCHANGED <<feed, target_count, batch_size, page, requests, all_sales,
                   idx, current_sales, best_prices, skipped_scam, result,
                   primary_file, legacy_file, stdout>>

\* Lines 200-209: json.dump and the close of the file succeed
DumpPrimary ==
    /\ pc = "dump_primary"
    /\ primary_file' = "current"
    /\ pc' = "open_legacy"
    /\ stdout' = Append(stdout, "complete")
    /\ UNCHANGED <<feed, target_count, batch_size, page, requests, all_sales,
                   idx, current_sales, best_prices, skipped_scam, result,
                   legacy_file>>

\* Mutant of DumpPrimaryFails: the failure does not end the run
DumpPrimaryFailsAndGoesOn ==
    /\ pc = "dump_primary"
    /\ \E content \in {"empty", "partial"} : primary_file' = content
    /\ pc' = "open_legacy"
    /\ UNCHANGED <<feed, target_count, batch_size, page, requests, all_sales,
                   idx, current_sales, best_prices, skipped_scam, result,
                   legacy_file, stdout>>

\* Lines 200, 211-212: a write raises IOError after none or some of the
\* document has reached the file; CommandError leaves handle()
DumpPrimaryFails ==
    /\ pc = "dump_primary"
    /\ \E content \in {"empty", "partial"} : primary_file' = content
    /\ pc' = "command_error"
    /\ UNCHANGED <<feed, target_count, batch_size, page, requests, all_sales,
                   idx, current_sales, best_prices, skipped_scam, result,
                   legacy_file, stdout>>

\* Line 217: open(legacy_path, 'w') truncates the file
OpenLegacy ==
    /\ pc = "open_legacy"
    /\ legacy_file' = "empty"
    /\ pc' = "dump_legacy"
    /\ UNCHANGED <<feed, target_count, batch_size, page, requests, all_sales,
                   idx, current_sales, best_prices, skipped_scam, result,
                   primary_file, stdout>>

\* Lines 217, 220-221: open() raises IOError, which is logged
OpenLegacyFails ==
    /\ pc = "open_legacy"
    /\ pc' = "done"
    /\ stdout' = Append(stdout, "legacy_failed")
    /\ UNCHANGED <<feed, target_count, batch_size, page, requests, all_sales,
                   idx, current_sales, best_prices, skipped_scam, result,
                   primary_file, legacy_file>>

\* Lines 218-219: json.dump(current_sales[:target_count]) succeeds
DumpLegacy ==
    /\ pc = "dump_legacy"
    /\ legacy_file' = "current"
    /\ pc' = "done"
    /\ stdout' = Append(stdout, "legacy_updated")
    /\ UNCHANGED <<feed, target_count, batch_size, page, requests, all_sales,
                   idx, current_sales, best_prices, skipped_scam, result,
                   primary_file>>

\* Lines 218, 220-221: a write raises IOError, which is logged
DumpLegacyFails ==
    /\ pc = "dump_legacy"
    /\ \E content \in {"empty", "partial"} : legacy_file' = content
    /\ pc' = "done"
    /\ stdout' = Append(stdout, "legacy_failed")
    /\ UNCHANGED <<feed, target_count, batch_size, page, requests, all_sales,
                   idx, current_sales, best_prices, skipped_scam, result,
                   primary_file>>

Next ==
    \/ FetchPage
    \/ FetchEmpty
    \/ FetchFails
    \/ FetchEnough
    \/ ProcessItem
    \/ BuildResult
    \/ OpenPrimary
    \/ OpenPrimaryFails
    \/ DumpPrimary
    \/ DumpPrimaryFails
    \/ OpenLegacy
    \/ OpenLegacyFails
    \/ DumpLegacy
    \/ DumpLegacyFails

Spec == Init /\ [][Next]_vars

\* One passage through the while loop of lines 59-95
FetchStep == FetchPage \/ FetchEmpty \/ FetchFails \/ FetchEnough

\* The process runs on: a passage through the loop that is possible is
\* eventually made (each request has a timeout, line 67).
FairSpec == Spec /\ WF_vars(FetchStep)

----------------------------------------------------------------------------
(* Properties *)

\* The primary file holds the complete document of this run
Written == primary_file = "current"

Range(s) == {s[i] : i \in 1..Len(s)}

\* A best-price entry without its is_best_price tag
Untagged(entry) == [k \in DOMAIN entry \ {"is_best_price"} |-> entry[k]]

\* The items of all_sales that pass the filter, as positions
Passed == {p \in 1..Len(all_sales) : FilterOutcome(all_sales[p]) = "pass"}

\* C1 as stated: in a written snapshot every entry of top_sales has
\* discount_rate >= 0.5 and its game_id occurs in the written current_sales.
C1_TopSalesWithinWrittenCurrent ==
    Written =>
        \A t \in Range(result.top_sales) :
            /\ t.discount_rate >= 50
            /\ \E c \in Range(result.current_sales) : c.game_id = t.game_id

\* C1 amended: in a written snapshot every entry of top_sales has
\* discount_rate >= 0.5 and is an entry of the current-sales list before
\* that list is cut to its cap; it is in the written current_sales whenever
\* stats.current_count does not exceed the cap.
C1_TopSalesWithinCurrent ==
    Written =>
        \A t \in Range(result.top_sales) :
            /\ t.discount_rate >= 50
            /\ t \in Range(current_sales)
            /\ result.stats.current_count <= CurrentCap
                  => t \in Range(result.current_sales)

\* A written snapshot whose top_sales holds a game that the cap cut out of
\* current_sales
C1_Witness ==
    /\ Written
    /\ \E t \in Range(result.top_sales) :
          \A c \in Range(result.current_sales) : c.game_id # t.game_id

\* The prices > 0 at which the filtered input offers game gid
OfferedPrices(gid) ==
    {sale_price(all_sales[p]) :
        p \in {q \in Passed : /\ Get(all_sales[q], "game_id") = gid
                              /\ sale_price(all_sales[q]) > 0}}

\* C2: in a written snapshot no two entries of best_prices share a game_id,
\* and each entry's current_price is the minimum current_price > 0 of its
\* game in the filtered input.
C2_BestPriceIsMinimum ==
    Written =>
        /\ \A i, j \in 1..Len(result.best_prices) :
              result.best_prices[i].game_id = result.best_prices[j].game_id
                 => i = j
        /\ \A e \in Range(result.best_prices) :
              /\ e.current_price \in OfferedPrices(e.game_id)
              /\ \A x \in OfferedPrices(e.game_id) : e.current_price <= x

\* A written snapshot with a best-price entry for a game that was fetched at
\* a higher price first and at its lowest price later
C2_Witness ==
    /\ Written
    /\ \E e \in Range(result.best_prices) :
          \E p, q \in Passed :
             /\ p < q
             /\ Get(all_sales[p], "game_id") = e.game_id
             /\ Get(all_sales[q], "game_id") = e.game_id
             /\ sale_price(all_sales[p]) > sale_price(all_sales[q])
             /\ sale_price(all_sales[q]) = e.current_price

\* C8: in a written snapshot the three lists are within their caps.
C8_ListsWithinCaps ==
    Written =>
        /\ Len(result.current_sales) <= CurrentCap
        /\ Len(result.top_sales) <= TopCap
        /\ Len(result.best_prices) <= BestCap

\* A written snapshot for a run that collected more current sales, more
\* popular sales and more best prices than the caps allow
C8_Witness ==
    /\ Written
    /\ Len(current_sales) > CurrentCap
    /\ Len(SelectSeq(current_sales, IsPopular)) > TopCap
    /\ Len(best_prices) > BestCap
    /\ Len(result.current_sales) = CurrentCap
    /\ Len(result.top_sales) = TopCap
    /\ Len(result.best_prices) = BestCap

\* C10: in a written snapshot total_fetched is the number of raw records,
\* top_count the length of the written top_sales, and current_count and
\* best_prices_count the sizes of the collections before their caps: at
\* least the written lengths, and equal to them exactly when within the cap.
C10_StatsCounts ==
    Written =>
        /\ result.stats.total_fetched = Len(all_sales)
        /\ result.stats.top_count = Len(result.top_sales)
        /\ result.stats.current_count = Len(current_sales)
        /\ result.stats.best_prices_count = Len(best_prices)
        /\ result.stats.current_count >= Len(result.current_sales)
        /\ result.stats.best_prices_count >= Len(result.best_prices)
        /\ (result.stats.current_count = Len(result.current_sales))
              <=> (Len(current_sales) <= CurrentCap)
        /\ (result.stats.best_prices_count = Len(result.best_prices))
              <=> (Len(best_prices) <= BestCap)

\* A written snapshot whose counts exceed the lengths of the written lists
C10_Witness ==
    /\ Written
    /\ result.stats.current_count > Len(result.current_sales)
    /\ result.stats.best_prices_count > Len(result.best_prices)

\* The five rejection rules as the specification words them, on the values
\* the filter reads (a missing number being 0, a missing title empty)
RuleHolds(item) ==
    LET d == discount_rt(item)
        count == sale_count(item)
        title == title_nm(item)
    IN  \/ d > 100
        \/ full_price(item) > 500000
        \/ (d >= 90 /\ sale_price(item) > 30000)
        \/ (count # None /\ count[1] < 3 /\ d >= 95)
        \/ /\ d >= 95
           /\ title # None
           /\ \E k \in 1..5 : Contains(scam_keywords[k], Lower(title[1]))

\* The items the classification loop has been through
Processed == 1..(idx - 1)

\* Every entry held by a collection or by the built document
ViewEntries ==
    Range(current_sales)
    \cup {Untagged(e) : e \in Range(best_prices)}
    \cup Range(result.current_sales)
    \cup Range(result.top_sales)
    \cup {Untagged(e) : e \in Range(result.best_prices)}

MissingField(item) ==
    Get(item, "game_id") = None \/ Get(item, "title_nm") = None

\* C4 as stated: an item without game_id or title is skipped without
\* raising: no such item stops the run and none enters a view.
C4_MissingFieldSkipped ==
    /\ pc = "crashed" => ~MissingField(all_sales[idx])
    /\ \A e \in ViewEntries : e.game_id # None /\ e.title # None

\* C5 as stated: when the write of the primary file fails, the run reports
\* the failure and the legacy write is still attempted, its outcome logged.
C5_LegacyAttemptedAfterFailure ==
    pc = "command_error" =>
        \E i \in 1..Len(stdout) : stdout[i] \in {"legacy_updated", "legacy_failed"}

LegacyOutcomes ==
    {i \in 1..Len(stdout) : stdout[i] \in {"legacy_updated", "legacy_failed"}}

\* C5 amended: a failed write of the primary file ends the run with
\* CommandError before the legacy file is opened: the legacy file is left as
\* it was and no legacy outcome is logged. When the primary write succeeds
\* the legacy write is attempted once, and its failure is only logged.
C5_PrimaryFailureEndsRun ==
    /\ (primary_file \in {"empty", "partial"} /\ pc # "dump_primary")
          => pc = "command_error"
    /\ pc = "command_error" =>
          /\ primary_file # "current"
          /\ legacy_file = "previous"
          /\ LegacyOutcomes = {}
    /\ pc = "done" =>
          /\ primary_file = "current"
          /\ Cardinality(LegacyOutcomes) = 1
          /\ (legacy_file = "current") <=> (stdout[Len(stdout)] = "legacy_updated")

\* A run ended by CommandError with a partly written primary file
C5_Witness ==
    /\ pc = "command_error"
    /\ primary_file = "partial"
    /\ Len(all_sales) > 0

\* C7 as stated: the primary path always holds the complete document of the
\* previous run or of this run.
C7_PrimaryAlwaysComplete == primary_file \in {"previous", "current"}

\* The items received by the requests of a log, in page order
RECURSIVE ItemsOf(_)
ItemsOf(log) ==
    IF log = <<>> THEN <<>>
    ELSE ItemsOf(SubSeq(log, 1, Len(log) - 1)) \o log[Len(log)].items

\* The fetch loop so far: pages 1, 2, 3, ... requested once each; no
\* request made once N items were there, a page was empty or a request had
\* failed; the loop left only for one of these three reasons; all_sales the
\* untruncated concatenation of the pages received.
FetchLoopInv ==
    /\ \A k \in 1..Len(requests) :
          /\ requests[k].page = k
          /\ Len(ItemsOf(SubSeq(requests, 1, k - 1))) < target_count
          /\ k < Len(requests) => requests[k].outcome = "ok"
          /\ (requests[k].outcome = "ok") <=> (requests[k].items # <<>>)
    /\ all_sales = ItemsOf(requests)
    /\ pc = "fetch" => \A k \in 1..Len(requests) : requests[k].outcome = "ok"
    /\ pc # "fetch" =>
          \/ Len(all_sales) >= target_count
          \/ /\ requests # <<>>
             /\ requests[Len(requests)].outcome \in {"empty", "status", "exception"}

\* C6: the fetch loop requests the pages in order, once each, stops at the
\* first of its three stop conditions, hands over all it received, and
\* always terminates.
C6_FetchLoop == []FetchLoopInv /\ <>(pc # "fetch")

\* Three pages of two items and an empty fourth page: six items, no error
C6_Witness ==
    /\ pc = "classify"
    /\ Len(requests) = 4
    /\ \A k \in 1..3 : Len(requests[k].items) = 2
    /\ requests[4].outcome = "empty"
    /\ Len(all_sales) = 6
    /\ \A i \in 1..Len(stdout) : stdout[i] \notin {"request_failed", "error"}

NonIncreasing(keys) == \A i, j \in 1..Len(keys) : i < j => keys[i] >= keys[j]

DiscountKeys(list) == [i \in 1..Len(list) |-> list[i].discount_rate]
SaleCountKeys(list) ==
    [i \in 1..Len(list) |->
        IF list[i].sale_count = None THEN 0 ELSE list[i].sale_count[1]]

\* Two different entries of the list with equal keys stand in the order in
\* which their records were fetched
TiesInFetchOrder(list, keys) ==
    \A i, j \in 1..Len(list) :
        (i < j /\ keys[i] = keys[j] /\ Untagged(list[i]) # Untagged(list[j]))
           => \E p, q \in Passed :
                 /\ p < q
                 /\ GameInfo(all_sales[p]) = Untagged(list[i])
                 /\ GameInfo(all_sales[q]) = Untagged(list[j])

IsPrefix(s, t) == Len(s) <= Len(t) /\ s = SubSeq(t, 1, Len(s))

\* The entries of the list whose key is k, in the list's order
WithKey(list, keys, k) ==
    LET at == {i \in 1..Len(list) : keys[i] = k}
        nth(n) == CHOOSE i \in at : Cardinality({j \in at : j < i}) = n - 1
    IN  [n \in 1..Cardinality(at) |-> list[nth(n)]]

\* The current sales among the filtered input, in fetch order
KeptCurrent(item) == FilterOutcome(item) = "pass" /\ IsCurrent(item)
FetchedCurrent ==
    LET kept == SelectSeq(all_sales, KeptCurrent)
    IN  [i \in 1..Len(kept) |-> GameInfo(kept[i])]

AtLeastHalfOff(info) == info.discount_rate >= 50

\* The first position in all_sales at which game gid takes part in
\* best-price tracking
FirstTracked(gid) ==
    CHOOSE p \in Passed :
        /\ Get(all_sales[p], "game_id") = gid /\ TracksPrice(all_sales[p])
        /\ \A q \in Passed :
              (Get(all_sales[q], "game_id") = gid /\ TracksPrice(all_sales[q]))
                 => p <= q

====
